---- MODULE Spec2Model ----
(***************************************************************************)
(* Model of dags/example_dag.py: the DAG simple_requests_dag with its      *)
(* three tasks fetch_users_data, fetch_user_posts (dynamically mapped over *)
(* the user ids) and process_all_data, run by the orchestration runtime    *)
(* with the defaults the file leaves in place (trigger rule all_success,   *)
(* no retries).                                                            *)
(*                                                                         *)
(* Python values are modelled as records: None is PyNone, a list is        *)
(* PyList(s).  A string built by an f-string is a sequence of one-char     *)
(* strings.  Task map indexes are 1-based here (0-based in the runtime).   *)
(***************************************************************************)
EXTENDS Integers, Sequences, FiniteSets, TLC

VARIABLES users_ti, xcom_users, mapped, posts_ti, xcom_posts, finished, proc_ti, call

vars == <<users_ti, xcom_users, mapped, posts_ti, xcom_posts, finished, proc_ti, call>>

dagVars == <<users_ti, xcom_users, mapped, posts_ti, xcom_posts, finished, proc_ti>>

-----------------------------------------------------------------------------
(* Bounds of the model. *)

\* Longest user list the remote API answers with.
MaxUsers == 2

\* Longest post list the remote API answers with for one user.
MaxPosts == 2

\* The user identifiers the remote API may hand out (one and two digits).
UserIdSet == {1, 10}

-----------------------------------------------------------------------------
(* Python values. *)

PyNone == [kind |-> "None", items |-> <<>>]

PyList(s) == [kind |-> "list", items |-> s]

\* sum(len(x) for x in s)
RECURSIVE SumLen(_)
SumLen(s) == IF s = <<>> THEN 0 ELSE Len(Head(s)) + SumLen(Tail(s))

\* The decimal digit d as a character.
Digit(d) == <<"0", "1", "2", "3", "4", "5", "6", "7", "8", "9">>[d + 1]

\* f"{n}" for a non-negative int n.
RECURSIVE FormatInt(_)
FormatInt(n) == IF n < 10 THEN <<Digit(n)>> ELSE FormatInt(n \div 10) \o <<Digit(n % 10)>>

\* The value of a digit character, -1 when it is none.
DigitValue(c) == IF \E d \in 0..9 : Digit(d) = c THEN CHOOSE d \in 0..9 : Digit(d) = c ELSE -1

\* The remote server's reading of a decimal path segment.
RECURSIVE ParseInt(_)
ParseInt(s) == IF s = <<>> THEN 0 ELSE 10 * ParseInt(SubSeq(s, 1, Len(s) - 1)) + DigitValue(s[Len(s)])

-----------------------------------------------------------------------------
(* The HTTP layer: requests, and what requests.get can come back with. *)

\* timeout=10 of both requests.get calls.
RequestTimeout == 10

ApiScheme == "https"

ApiHost == "jsonplaceholder.typicode.com"

\* api_url of fetch_users_data.
UsersUrl == [scheme |-> ApiScheme, host |-> ApiHost, path |-> <<"users">>]

\* A mis-built url: every instance asks for the posts of user 1.
PostsUrlNoId(user_id) == [scheme |-> ApiScheme, host |-> ApiHost, path |-> <<"users", FormatInt(1), "posts">>]

\* api_url of fetch_user_posts: f".../users/{user_id}/posts".
PostsUrl(user_id) == [scheme |-> ApiScheme, host |-> ApiHost, path |-> <<"users", FormatInt(user_id), "posts">>]

\* requests.get(api_url, timeout=10)
GetRequest(url) == [method |-> "GET", url |-> url, timeout |-> RequestTimeout]

\* Exceptions requests.get itself raises (subclasses of RequestException).
NetErrors == {"ConnectionError", "Timeout"}

StatusCodes == {200, 404, 500}

NoBody == [valid |-> FALSE, json |-> <<>>]

\* A status check that only knows client errors.
BadStatus4xxOnly(status) == 400 <= status /\ status < 500

\* response.raise_for_status() raises HTTPError for 4xx and 5xx.
BadStatus(status) == 400 <= status /\ status < 600

UserObject(id) == [id |-> id, name |-> "user"]

PostObject(u, k) == [userId |-> u, id |-> k, title |-> "title"]

SeqsUpTo(S, n) == UNION {[1..k -> S] : k \in 0..n}

\* Bodies of the /users endpoint: JSON lists of user objects, or no JSON.
UsersBodies == {NoBody} \cup {[valid |-> TRUE, json |-> [i \in 1..Len(ids) |-> UserObject(ids[i])]] : ids \in SeqsUpTo(UserIdSet, MaxUsers)}

\* Bodies of /users/u/posts: JSON lists of u's posts, or no JSON.
PostsBodies(u) == {NoBody} \cup {[valid |-> TRUE, json |-> [k \in 1..n |-> PostObject(u, k)]] : n \in 0..MaxPosts}

\* Everything one GET can end with, given the bodies the endpoint serves.
Outcomes(bodies) == {[exc |-> e, status |-> 0, body |-> NoBody] : e \in NetErrors} \cup {[exc |-> "", status |-> s, body |-> b] : s \in StatusCodes, b \in bodies}

\* The remote server: the endpoint is chosen by the request's path.
ServerOutcomes(req) == IF Len(req.url.path) = 3 THEN Outcomes(PostsBodies(ParseInt(req.url.path[2]))) ELSE Outcomes(UsersBodies)

-----------------------------------------------------------------------------
(* The three task functions.  A call yields a record: the requests sent,   *)
(* the operations performed in order, the exception raised ("" for none),  *)
(* whether the function returned, the value returned, and what the         *)
(* function printed that is its product.                                   *)

NoResult == [requests |-> <<>>, ops |-> <<>>, raised |-> "", returned |-> FALSE, value |-> PyNone, stdout |-> <<>>]

Raised(reqs, ops, e) == [requests |-> reqs, ops |-> ops, raised |-> e, returned |-> FALSE, value |-> PyNone, stdout |-> <<>>]

Returned(reqs, ops, v, out) == [requests |-> reqs, ops |-> ops, raised |-> "", returned |-> TRUE, value |-> v, stdout |-> out]

\* A handler that swallows the exception: the function falls off its end.
ExceptSwallow(r) == [r EXCEPT !.raised = "", !.returned = TRUE]

\* A handler that tries the request once more before giving up.
ExceptRetry(r) == [r EXCEPT !.requests = @ \o @, !.ops = @ \o @]

\* except requests.exceptions.RequestException as e: print(...); raise
ExceptRequestException(r) == r

\* user_ids that keeps one entry per distinct id.
UserIdsDistinct(users) == LET keep == {i \in 1..Len(users) : \A j \in 1..(i - 1) : users[j].id # users[i].id} IN [k \in 1..Cardinality(keep) |-> users[CHOOSE i \in keep : Cardinality({j \in keep : j < i}) = k - 1].id]

\* user_ids = [user["id"] for user in users]
UserIds(users) == [i \in 1..Len(users) |-> users[i].id]

\* The body of try: in fetch_users_data, given what the GET comes back with.
FetchUsersData(o) ==
    LET req == GetRequest(UsersUrl) IN
    IF o.exc # "" THEN ExceptRequestException(Raised(<<req>>, <<"get">>, o.exc))
    ELSE IF BadStatus(o.status) THEN ExceptRequestException(Raised(<<req>>, <<"get", "raise_for_status">>, "HTTPError"))
    ELSE IF ~o.body.valid THEN ExceptRequestException(Raised(<<req>>, <<"get", "raise_for_status", "json">>, "JSONDecodeError"))
    ELSE Returned(<<req>>, <<"get", "raise_for_status", "json", "return">>, PyList(UserIds(o.body.json)), <<>>)

\* The title is read whatever the length of the list.
ReadsTitleAlways(posts) == TRUE

\* if posts: -- the guard of the read of posts[0]['title'].
ReadsTitle(posts) == Len(posts) > 0

\* The body of try: in fetch_user_posts, given what the GET comes back with.
FetchUserPosts(user_id, o) ==
    LET req == GetRequest(PostsUrl(user_id)) IN
    IF o.exc # "" THEN ExceptRequestException(Raised(<<req>>, <<"get">>, o.exc))
    ELSE IF BadStatus(o.status) THEN ExceptRequestException(Raised(<<req>>, <<"get", "raise_for_status">>, "HTTPError"))
    ELSE IF ~o.body.valid THEN ExceptRequestException(Raised(<<req>>, <<"get", "raise_for_status", "json">>, "JSONDecodeError"))
    ELSE IF ReadsTitle(o.body.json)
         THEN IF Len(o.body.json) = 0
              THEN Raised(<<req>>, <<"get", "raise_for_status", "json", "title">>, "IndexError")
              ELSE Returned(<<req>>, <<"get", "raise_for_status", "json", "title", "return">>, PyList(o.body.json), <<>>)
         ELSE Returned(<<req>>, <<"get", "raise_for_status", "json", "return">>, PyList(o.body.json), <<>>)

\* A total that counts the lists instead of the posts in them.
TotalPostsCountsLists(all_posts_data) == Len(all_posts_data)

\* total_posts_fetched = sum(len(posts) for posts in all_posts_data)
TotalPosts(all_posts_data) == SumLen(all_posts_data)

\* process_all_data: prints the two counts and falls off its end.
ProcessAllData(all_users_data, all_posts_data) ==
    Returned(<<>>, <<>>, PyNone, <<Len(all_users_data), TotalPosts(all_posts_data)>>)

-----------------------------------------------------------------------------
(* The DAG (simple_requests_workflow) and the runtime that executes it.    *)
(* Task instance states: "none", "scheduled", "running", "success",        *)
(* "failed", "upstream_failed", "skipped".                                 *)

TaskIds == {"fetch_users_data", "fetch_user_posts", "process_all_data"}

\* A wiring in which process_all_data is handed user_ids only.
UpstreamOfUsersOnly(t) == IF t = "fetch_users_data" THEN {} ELSE {"fetch_users_data"}

\* The upstream tasks of each task: the XComArgs passed at lines 73-79.
UpstreamOf(t) ==
    CASE t = "fetch_users_data" -> {}
      [] t = "fetch_user_posts" -> {"fetch_users_data"}
      [] t = "process_all_data" -> {"fetch_users_data", "fetch_user_posts"}

\* The dependency edges of the DAG, upstream first.
Edges == {e \in TaskIds \X TaskIds : e[1] \in UpstreamOf(e[2])}

\* t is reachable from u along at most n edges.
RECURSIVE Reaches(_, _, _)
Reaches(u, t, n) == n > 0 /\ (<<u, t>> \in Edges \/ \E m \in TaskIds : <<u, m>> \in Edges /\ Reaches(m, t, n - 1))

\* The states of the task instances of task t (the unexpanded mapped task
\* counts as the single placeholder instance the runtime keeps for it).
InstanceStates(t) ==
    CASE t = "fetch_users_data" -> <<users_ti.state>>
      [] t = "fetch_user_posts" -> IF mapped = "expanded" THEN [i \in 1..Len(posts_ti) |-> posts_ti[i].state]
                                   ELSE IF mapped = "unexpanded" THEN <<"none">> ELSE <<mapped>>
      [] t = "process_all_data" -> <<proc_ti.state>>

\* The states of all upstream task instances of task t.
UpstreamStates(t) == UNION {{InstanceStates(u)[i] : i \in 1..Len(InstanceStates(u))} : u \in UpstreamOf(t)}

\* Every upstream instance has reached a final state.
UpstreamFinished(t) == \A u \in UpstreamOf(t) : \A i \in 1..Len(InstanceStates(u)) : InstanceStates(u)[i] \in {"success", "failed", "upstream_failed", "skipped"}

\* The rule all_done: run as soon as every upstream instance has finished.
TriggerRuleAllDone(t) == IF UpstreamFinished(t) THEN "run" ELSE "wait"

\* The default trigger rule all_success of @task: what the runtime does
\* with a not yet started instance of t.
TriggerRule(t) ==
    IF UpstreamStates(t) \cap {"failed", "upstream_failed"} # {} THEN "upstream_failed"
    ELSE IF "skipped" \in UpstreamStates(t) THEN "skipped"
    ELSE IF UpstreamStates(t) \subseteq {"success"} THEN "run"
    ELSE "wait"

\* The final state of a task instance whose function call gave r (retries
\* are left at their default, none).
FinalState(r) == IF r.raised # "" THEN "failed" ELSE "success"

\* An expansion that makes one instance per distinct value.
ExpandArgsDistinct(v) == LET keep == {i \in 1..Len(v.items) : \A j \in 1..(i - 1) : v.items[j] # v.items[i]} IN [k \in 1..Cardinality(keep) |-> v.items[CHOOSE i \in keep : Cardinality({j \in keep : j < i}) = k - 1]]

\* fetch_user_posts.expand(user_id=user_ids): the user_id of each map index.
ExpandArgs(v) == v.items

\* The pushed results in the order the instances finished.
GatherByCompletion == LET pushed == SelectSeq(finished, LAMBDA i : i \in DOMAIN xcom_posts) IN [k \in 1..Len(pushed) |-> xcom_posts[pushed[k]].items]

\* user_posts as resolved for process_all_data: the pushed return values of
\* the mapped instances in map index order.
Gather == [k \in 1..Cardinality(DOMAIN xcom_posts) |-> xcom_posts[CHOOSE i \in DOMAIN xcom_posts : Cardinality({j \in DOMAIN xcom_posts : j < i}) = k - 1].items]

NoCall == [fn |-> "", user_id |-> 0, outcome |-> [exc |-> "", status |-> 0, body |-> NoBody], all_users_data |-> <<>>, all_posts_data |-> <<>>, result |-> NoResult]

NoTi == [state |-> "none", outcome |-> NoCall.outcome, result |-> NoResult]

Init ==
    /\ users_ti = NoTi
    /\ xcom_users = [pushed |-> FALSE, value |-> PyNone]
    /\ mapped = "unexpanded"
    /\ posts_ti = <<>>
    /\ xcom_posts = <<>>
    /\ finished = <<>>
    /\ proc_ti = [state |-> "none", all_users_data |-> <<>>, all_posts_data |-> <<>>, result |-> NoResult]
    /\ call = NoCall

\* The runtime starts fetch_users_data (it has no upstream task).
StartFetchUsersData ==
    /\ users_ti.state = "none"
    /\ TriggerRule("fetch_users_data") = "run"
    /\ users_ti' = [users_ti EXCEPT !.state = "running"]
    /\ UNCHANGED <<xcom_users, mapped, posts_ti, xcom_posts, finished, proc_ti, call>>

\* fetch_users_data runs to its end; a returned value is pushed as its XCom.
RunFetchUsersData ==
    /\ users_ti.state = "running"
    /\ \E o \in ServerOutcomes(GetRequest(UsersUrl)) :
         LET r == FetchUsersData(o) IN
         /\ users_ti' = [state |-> FinalState(r), outcome |-> o, result |-> r]
         /\ xcom_users' = IF r.returned /\ r.value # PyNone THEN [pushed |-> TRUE, value |-> r.value] ELSE xcom_users
    /\ UNCHANGED <<mapped, posts_ti, xcom_posts, finished, proc_ti, call>>

\* The runtime expands fetch_user_posts over the pushed user_ids; an empty
\* list leaves the mapped task skipped.
ExpandFetchUserPosts ==
    /\ mapped = "unexpanded"
    /\ TriggerRule("fetch_user_posts") = "run"
    /\ LET args == ExpandArgs(xcom_users.value) IN
         IF Len(args) = 0
         THEN mapped' = "skipped" /\ posts_ti' = posts_ti
         ELSE /\ mapped' = "expanded"
              /\ posts_ti' = [i \in 1..Len(args) |-> [state |-> "scheduled", user_id |-> args[i], outcome |-> NoCall.outcome, result |-> NoResult]]
    /\ UNCHANGED <<users_ti, xcom_users, xcom_posts, finished, proc_ti, call>>

\* fetch_users_data failed: the mapped task is never expanded.
UpstreamFailedFetchUserPosts ==
    /\ mapped = "unexpanded"
    /\ TriggerRule("fetch_user_posts") = "upstream_failed"
    /\ mapped' = "upstream_failed"
    /\ UNCHANGED <<users_ti, xcom_users, posts_ti, xcom_posts, finished, proc_ti, call>>

\* A worker picks up instance i of fetch_user_posts.
StartFetchUserPosts(i) ==
    /\ mapped = "expanded"
    /\ posts_ti[i].state = "scheduled"
    /\ posts_ti' = [posts_ti EXCEPT ![i].state = "running"]
    /\ UNCHANGED <<users_ti, xcom_users, mapped, xcom_posts, finished, proc_ti, call>>

\* Instance i of fetch_user_posts runs to its end against the remote server.
RunFetchUserPosts(i) ==
    /\ mapped = "expanded"
    /\ posts_ti[i].state = "running"
    /\ \E o \in ServerOutcomes(GetRequest(PostsUrl(posts_ti[i].user_id))) :
         LET r == FetchUserPosts(posts_ti[i].user_id, o) IN
         /\ posts_ti' = [posts_ti EXCEPT ![i].state = FinalState(r), ![i].outcome = o, ![i].result = r]
         /\ xcom_posts' = IF r.returned /\ r.value # PyNone THEN (i :> r.value) @@ xcom_posts ELSE xcom_posts
    /\ finished' = Append(finished, i)
    /\ UNCHANGED <<users_ti, xcom_users, mapped, proc_ti, call>>

\* The runtime starts process_all_data and resolves its two arguments.
StartProcessAllData ==
    /\ proc_ti.state = "none"
    /\ TriggerRule("process_all_data") = "run"
    /\ proc_ti' = [proc_ti EXCEPT !.state = "running", !.all_users_data = xcom_users.value.items, !.all_posts_data = Gather]
    /\ UNCHANGED <<users_ti, xcom_users, mapped, posts_ti, xcom_posts, finished, call>>

\* process_all_data runs to its end.
RunProcessAllData ==
    /\ proc_ti.state = "running"
    /\ LET r == ProcessAllData(proc_ti.all_users_data, proc_ti.all_posts_data) IN
         proc_ti' = [proc_ti EXCEPT !.state = FinalState(r), !.result = r]
    /\ UNCHANGED <<users_ti, xcom_users, mapped, posts_ti, xcom_posts, finished, call>>

\* An upstream instance failed: process_all_data is never run.
UpstreamFailedProcessAllData ==
    /\ proc_ti.state = "none"
    /\ TriggerRule("process_all_data") = "upstream_failed"
    /\ proc_ti' = [proc_ti EXCEPT !.state = "upstream_failed"]
    /\ UNCHANGED <<users_ti, xcom_users, mapped, posts_ti, xcom_posts, finished, call>>

\* The mapped task was skipped: process_all_data is skipped with it.
SkipProcessAllData ==
    /\ proc_ti.state = "none"
    /\ TriggerRule("process_all_data") = "skipped"
    /\ proc_ti' = [proc_ti EXCEPT !.state = "skipped"]
    /\ UNCHANGED <<users_ti, xcom_users, mapped, posts_ti, xcom_posts, finished, call>>

Next ==
    \/ StartFetchUsersData
    \/ RunFetchUsersData
    \/ ExpandFetchUserPosts
    \/ UpstreamFailedFetchUserPosts
    \/ \E i \in 1..Len(posts_ti) : StartFetchUserPosts(i)
    \/ \E i \in 1..Len(posts_ti) : RunFetchUserPosts(i)
    \/ StartProcessAllData
    \/ RunProcessAllData
    \/ UpstreamFailedProcessAllData
    \/ SkipProcessAllData

Spec == Init /\ [][Next]_vars

-----------------------------------------------------------------------------
(* Direct calls of the three functions with a stubbed HTTP client, as a    *)
(* unit test makes them: no runtime, one call per test.                     *)

\* The post lists a stubbed client can be made to serve.
AllPostLists == UNION {{b.json : b \in PostsBodies(u)} : u \in UserIdSet}

CallFetchUsersData ==
    /\ call = NoCall
    /\ \E o \in ServerOutcomes(GetRequest(UsersUrl)) :
         call' = [NoCall EXCEPT !.fn = "fetch_users_data", !.outcome = o, !.result = FetchUsersData(o)]
    /\ UNCHANGED dagVars

CallFetchUserPosts ==
    /\ call = NoCall
    /\ \E u \in UserIdSet : \E o \in ServerOutcomes(GetRequest(PostsUrl(u))) :
         call' = [NoCall EXCEPT !.fn = "fetch_user_posts", !.user_id = u, !.outcome = o, !.result = FetchUserPosts(u, o)]
    /\ UNCHANGED dagVars

CallProcessAllData ==
    /\ call = NoCall
    /\ \E us \in SeqsUpTo(UserIdSet, MaxUsers) : \E ps \in SeqsUpTo(AllPostLists, MaxUsers) :
         call' = [NoCall EXCEPT !.fn = "process_all_data", !.all_users_data = us, !.all_posts_data = ps, !.result = ProcessAllData(us, ps)]
    /\ UNCHANGED dagVars

NextUnit ==
    \/ CallFetchUsersData
    \/ CallFetchUserPosts
    \/ CallProcessAllData

SpecUnit == Init /\ [][NextUnit]_vars

-----------------------------------------------------------------------------
(* The invocations a state records. *)

Final(state) == state \in {"success", "failed"}

\* Finished invocations of the two fetching functions: the function, its
\* user_id (0 for fetch_users_data), what the GET came back with, the result.
FetchInvocations ==
    {[fn |-> call.fn, user_id |-> call.user_id, outcome |-> call.outcome, result |-> call.result] : x \in {y \in {1} : call.fn \in {"fetch_users_data", "fetch_user_posts"}}}
    \cup {[fn |-> "fetch_users_data", user_id |-> 0, outcome |-> users_ti.outcome, result |-> users_ti.result] : x \in {y \in {1} : Final(users_ti.state)}}
    \cup {[fn |-> "fetch_user_posts", user_id |-> posts_ti[i].user_id, outcome |-> posts_ti[i].outcome, result |-> posts_ti[i].result] : i \in {j \in 1..Len(posts_ti) : Final(posts_ti[j].state)}}

\* Finished invocations of process_all_data: its arguments and its result.
ProcessInvocations ==
    {[all_users_data |-> call.all_users_data, all_posts_data |-> call.all_posts_data, result |-> call.result] : x \in {y \in {1} : call.fn = "process_all_data"}}
    \cup {[all_users_data |-> proc_ti.all_users_data, all_posts_data |-> proc_ti.all_posts_data, result |-> proc_ti.result] : x \in {y \in {1} : Final(proc_ti.state)}}

\* The GET failed in the network layer or came back with a 4xx/5xx status.
RequestFailed(o) == o.exc # "" \/ o.status \in 400..599

\* The exception requests raises for such an outcome.
OriginalException(o) == IF o.exc # "" THEN o.exc ELSE "HTTPError"

\* The number of times op occurs in the sequence ops.
Count(ops, op) == Cardinality({k \in 1..Len(ops) : ops[k] = op})

\* The number of posts in a list of post lists, counted post by post.
NumPosts(ps) == Cardinality({<<i, k>> \in (1..Len(ps)) \X (1..(MaxPosts + 1)) : k <= Len(ps[i])})

-----------------------------------------------------------------------------
(* The claims. *)

\* C1: in fetch_users_data and in every fetch_user_posts instance a failure
\* of the GET or of raise_for_status propagates unmodified: the exception
\* that leaves the function is the one that was raised, the function returns
\* no value, nothing is pushed, and the task instance ends failed.
C1_FailurePropagates ==
    /\ \A inv \in FetchInvocations : RequestFailed(inv.outcome) =>
         /\ inv.result.raised = OriginalException(inv.outcome)
         /\ ~inv.result.returned
         /\ inv.result.value = PyNone
    /\ Final(users_ti.state) /\ RequestFailed(users_ti.outcome) => users_ti.state = "failed" /\ ~xcom_users.pushed
    /\ \A i \in 1..Len(posts_ti) : Final(posts_ti[i].state) /\ RequestFailed(posts_ti[i].outcome) => posts_ti[i].state = "failed" /\ i \notin DOMAIN xcom_posts

\* C1 witness: one instance failed on a timeout of the GET, another on a 500.
C1_Witness ==
    /\ \E i \in 1..Len(posts_ti) : posts_ti[i].state = "failed" /\ posts_ti[i].outcome.exc = "Timeout"
    /\ \E i \in 1..Len(posts_ti) : posts_ti[i].state = "failed" /\ posts_ti[i].outcome.status = 500

\* C2: on a successful response carrying a JSON list of user objects,
\* fetch_users_data returns the list of their "id" fields: same length, same
\* order, duplicates kept, the empty list for the empty response.
C2_UserIdsExtracted ==
    \A inv \in FetchInvocations :
        inv.fn = "fetch_users_data" /\ inv.outcome.exc = "" /\ inv.outcome.status = 200 /\ inv.outcome.body.valid =>
            /\ inv.result.returned /\ inv.result.raised = ""
            /\ inv.result.value.kind = "list"
            /\ Len(inv.result.value.items) = Len(inv.outcome.body.json)
            /\ \A i \in 1..Len(inv.outcome.body.json) : inv.result.value.items[i] = inv.outcome.body.json[i].id

\* C2 witness: a response of two user objects with the same id was extracted.
C2_Witness ==
    /\ call.fn = "fetch_users_data" /\ call.result.returned
    /\ Len(call.outcome.body.json) = 2
    /\ call.outcome.body.json[1].id = call.outcome.body.json[2].id

\* C3 as stated: process_all_data returns the number of users and the total
\* number of posts.
C3_ReturnsCounts ==
    \A inv \in ProcessInvocations :
        inv.result.value = PyList(<<Len(inv.all_users_data), NumPosts(inv.all_posts_data)>>)

\* C3 as amended: process_all_data prints the number of users (the length of
\* the user-id list) and the total number of posts (the sum of the lengths of
\* the per-user post lists, 0 when there are none or all are empty); it
\* raises nothing and returns None.
C3_PrintsCounts ==
    \A inv \in ProcessInvocations :
        /\ inv.result.stdout = <<Len(inv.all_users_data), NumPosts(inv.all_posts_data)>>
        /\ (inv.all_posts_data = <<>> \/ \A i \in 1..Len(inv.all_posts_data) : inv.all_posts_data[i] = <<>>) => inv.result.stdout[2] = 0
        /\ inv.result.returned /\ inv.result.raised = ""
        /\ inv.result.value = PyNone

\* C3 witness: two post lists, one of them empty, the other with two posts.
C3_Witness ==
    /\ call.fn = "process_all_data"
    /\ Len(call.all_posts_data) = 2
    /\ call.all_posts_data[1] = <<>>
    /\ Len(call.all_posts_data[2]) = 2
    /\ call.result.stdout = <<Len(call.all_users_data), 2>>

\* C4: no fetch_user_posts instance exists or starts before fetch_users_data
\* has completed, process_all_data starts only after every fetch_user_posts
\* instance has completed, and the dependency graph is exactly
\* fetch_users_data -> fetch_user_posts -> process_all_data plus
\* fetch_users_data -> process_all_data, without a cycle.
C4_StepsOrdered ==
    /\ posts_ti # <<>> => Final(users_ti.state)
    /\ proc_ti.state \in {"running", "success", "failed"} =>
         /\ Final(users_ti.state)
         /\ mapped = "expanded"
         /\ \A i \in 1..Len(posts_ti) : Final(posts_ti[i].state)
    /\ Edges = {<<"fetch_users_data", "fetch_user_posts">>, <<"fetch_user_posts", "process_all_data">>, <<"fetch_users_data", "process_all_data">>}
    /\ \A t \in TaskIds : ~Reaches(t, t, Cardinality(TaskIds))

\* C4 witness: process_all_data ran after two instances of fetch_user_posts.
C4_Witness == proc_ti.state = "success" /\ Len(posts_ti) = 2

\* C5: the fan-out makes one fetch_user_posts instance per element of the
\* list fetch_users_data returned: as many instances as elements, instance i
\* with the id at position i, and none for an id that was not returned.
C5_OneInstancePerUserId ==
    /\ mapped = "expanded" =>
         /\ users_ti.result.returned
         /\ Len(posts_ti) = Len(users_ti.outcome.body.json)
         /\ \A i \in 1..Len(posts_ti) : posts_ti[i].user_id = users_ti.outcome.body.json[i].id
    /\ mapped # "expanded" => posts_ti = <<>>
    /\ \A i \in 1..Len(posts_ti) : \E k \in 1..Len(users_ti.result.value.items) : posts_ti[i].user_id = users_ti.result.value.items[k]

\* C5 witness: the returned list held the same id twice, two instances exist.
C5_Witness == mapped = "expanded" /\ Len(posts_ti) = 2 /\ posts_ti[1].user_id = posts_ti[2].user_id

\* C6 as stated: every invocation of each of the three functions performs
\* exactly one network call, one status check, one JSON parse and one return.
C6_OneOfEach ==
    /\ \A inv \in FetchInvocations :
         /\ Len(inv.result.requests) = 1 /\ Count(inv.result.ops, "get") = 1
         /\ Count(inv.result.ops, "raise_for_status") = 1
         /\ Count(inv.result.ops, "json") = 1
         /\ Count(inv.result.ops, "return") = 1
    /\ \A inv \in ProcessInvocations :
         /\ Len(inv.result.requests) = 1 /\ Count(inv.result.ops, "get") = 1
         /\ Count(inv.result.ops, "raise_for_status") = 1
         /\ Count(inv.result.ops, "json") = 1

\* C6 as amended: every invocation of fetch_users_data and of
\* fetch_user_posts sends exactly one request, also when it fails (no retry);
\* it checks the status once when the GET brought a response and not
\* otherwise, parses JSON once when the status was no 4xx/5xx and not
\* otherwise, and returns derived data once when the parse succeeded and not
\* otherwise.  process_all_data sends no request, checks no status, parses
\* no JSON and returns None.
C6_AtMostOneOfEach ==
    /\ \A inv \in FetchInvocations :
         /\ Len(inv.result.requests) = 1 /\ Count(inv.result.ops, "get") = 1
         /\ Count(inv.result.ops, "raise_for_status") = (IF inv.outcome.exc = "" THEN 1 ELSE 0)
         /\ Count(inv.result.ops, "json") = (IF ~RequestFailed(inv.outcome) THEN 1 ELSE 0)
         /\ Count(inv.result.ops, "return") = (IF ~RequestFailed(inv.outcome) /\ inv.outcome.body.valid THEN 1 ELSE 0)
         /\ inv.result.returned <=> Count(inv.result.ops, "return") = 1
    /\ \A inv \in ProcessInvocations :
         /\ inv.result.requests = <<>>
         /\ inv.result.ops = <<>>
         /\ inv.result.value = PyNone

\* C6 witness: a fetch_user_posts call whose GET timed out, one request sent.
C6_Witness ==
    /\ call.fn = "fetch_user_posts" /\ call.outcome.exc = "Timeout"
    /\ Len(call.result.requests) = 1 /\ call.result.raised = "Timeout"

\* C7: every request sent is an HTTPS GET to the fixed API host with a
\* timeout of 10 seconds; fetch_users_data asks for /users, fetch_user_posts
\* given user_id asks for /users/{user_id}/posts of that user_id; every
\* invocation sends a request.
C7_RequestsWellFormed ==
    \A inv \in FetchInvocations :
        /\ inv.result.requests # <<>>
        /\ \A k \in 1..Len(inv.result.requests) :
             LET req == inv.result.requests[k] IN
             /\ req.method = "GET" /\ req.timeout = 10
             /\ req.url.scheme = "https" /\ req.url.host = "jsonplaceholder.typicode.com"
             /\ inv.fn = "fetch_users_data" => req.url.path = <<"users">>
             /\ inv.fn = "fetch_user_posts" =>
                  /\ Len(req.url.path) = 3
                  /\ req.url.path[1] = "users" /\ req.url.path[3] = "posts"
                  /\ \A c \in 1..Len(req.url.path[2]) : DigitValue(req.url.path[2][c]) >= 0
                  /\ ParseInt(req.url.path[2]) = inv.user_id

\* C7 witness: the instance for user 10 has sent its request and finished.
C7_Witness == \E i \in 1..Len(posts_ti) : posts_ti[i].user_id = 10 /\ posts_ti[i].state = "success"

\* C8: in both fetching functions the status check precedes the JSON parse;
\* on a 4xx/5xx response the body is never parsed and nothing is returned;
\* on a successful response fetch_user_posts returns the parsed post list
\* unchanged, the empty list included, and the first title is read exactly
\* when the list is not empty.
C8_StatusCheckBeforeParse ==
    \A inv \in FetchInvocations :
        LET ops == inv.result.ops IN
        /\ \A k \in 1..Len(ops) : ops[k] = "json" => \E j \in 1..(k - 1) : ops[j] = "raise_for_status"
        /\ inv.outcome.exc = "" /\ inv.outcome.status \in 400..599 =>
             /\ Count(ops, "json") = 0
             /\ ~inv.result.returned /\ inv.result.value = PyNone
        /\ inv.fn = "fetch_user_posts" /\ inv.outcome.exc = "" /\ inv.outcome.status = 200 /\ inv.outcome.body.valid =>
             /\ inv.result.returned /\ inv.result.raised = ""
             /\ inv.result.value = PyList(inv.outcome.body.json)
             /\ Count(ops, "title") = (IF inv.outcome.body.json # <<>> THEN 1 ELSE 0)

\* C8 witness: one instance returned an empty post list, another got a 500
\* with a body that would have parsed.
C8_Witness ==
    /\ \E i \in 1..Len(posts_ti) : posts_ti[i].state = "success" /\ posts_ti[i].result.value = PyList(<<>>)
    /\ \E i \in 1..Len(posts_ti) : posts_ti[i].state = "failed" /\ posts_ti[i].outcome.status = 500 /\ posts_ti[i].outcome.body.valid

\* C9: if fetch_users_data fails, no fetch_user_posts instance and no
\* process_all_data run; if a fetch_user_posts instance fails,
\* process_all_data does not run, whatever the other instances did.
C9_NoPartialFailureHandling ==
    /\ users_ti.state = "failed" =>
         /\ posts_ti = <<>> /\ mapped \in {"unexpanded", "upstream_failed"}
         /\ proc_ti.state \in {"none", "upstream_failed"} /\ proc_ti.result = NoResult
    /\ (\E i \in 1..Len(posts_ti) : posts_ti[i].state = "failed") =>
         proc_ti.state \in {"none", "upstream_failed"} /\ proc_ti.result = NoResult

\* C9 witness: one instance failed, the other succeeded, and process_all_data
\* was set to upstream_failed.
C9_Witness ==
    /\ Len(posts_ti) = 2 /\ posts_ti[1].state = "success" /\ posts_ti[2].state = "failed"
    /\ proc_ti.state = "upstream_failed"

\* C10: whenever process_all_data runs, all_posts_data has one entry per
\* element of all_users_data, and entry i is the post list returned by the
\* instance that was given the user id at position i, in whatever order the
\* instances finished.
C10_PostsAlignedWithUsers ==
    proc_ti.state \in {"running", "success", "failed"} =>
        /\ Len(proc_ti.all_posts_data) = Len(proc_ti.all_users_data)
        /\ Len(posts_ti) = Len(proc_ti.all_users_data)
        /\ \A i \in 1..Len(proc_ti.all_users_data) :
             /\ posts_ti[i].user_id = proc_ti.all_users_data[i]
             /\ proc_ti.all_posts_data[i] = posts_ti[i].result.value.items
             /\ \A k \in 1..Len(proc_ti.all_posts_data[i]) : proc_ti.all_posts_data[i][k].userId = proc_ti.all_users_data[i]

\* C10 witness: the second instance finished first, with a different list.
C10_Witness ==
    /\ proc_ti.state = "running" /\ finished = <<2, 1>>
    /\ proc_ti.all_posts_data[1] # proc_ti.all_posts_data[2]

====
